---- MODULE Spec2Model ----
(***************************************************************************)
(* The controller of BINDetect (run_bindetect) with its worker pool, its   *)
(* writer pool, the writer queues, the log listener, the statistical       *)
(* fitting loops and the per-TF aggregation phase.                         *)
(***************************************************************************)
EXTENDS Integers, Sequences, FiniteSets, TLC

VARIABLES
    cores,                \* args.cores
    signals,              \* len(args.signals)
    cond_names,           \* args.cond_names, a sequence of condition ids
    args_pseudo,          \* args.pseudo (None when not configured)
    motif_list,           \* TF name of every motif variant (forward then reverse)
    peak_chunks,          \* number of chunks of peak_chunks
    pc,                   \* the controller's position in run_bindetect
    motif_names_predict,  \* list(set(names)), in the order the set iterated
    qs_list,              \* contents of the writer queues, by writer index
    qs,                   \* routing table: TF name -> index of its queue
    files,                \* per writer unit: the TF names it holds a file for
    writer,               \* per writer unit: "running", "done", "faulted"
    tmpfile,              \* per TF name: the records appended to <TF>.tmp
    task,                 \* per chunk: state of its scan_and_score call
    emitted,              \* per chunk: number of match records put so far
    results,              \* per chunk: the fragment returned by the scan
    finished,             \* the chunks whose scan has returned, in the order they returned
    markers,              \* per queue: shutdown markers the controller has put
    listener,             \* the log listener process
    background,           \* merged background: the sampled positions, in order
    bg_signal,            \* background["signal"]: per condition, value per position
    idx,                  \* index of the loop the controller is in
    thresholds,           \* args.thresholds
    pseudos,              \* the per-condition pseudocount candidates
    pseudo,               \* the local variable pseudo
    best_gmm,             \* the local variable best_gmm
    log2fc_params,        \* published null models, by condition pair
    agg,                  \* per predicted name: state of its process_tfbs call
    rows,                 \* per predicted name: the row process_tfbs returned
    info_table,           \* the concatenated result table
    written,              \* the durable outputs written so far
    abort,                \* how the run was aborted, "none" while it is not
    abort_names,          \* the inputs the abort message names
    call,                 \* a function of the run applied on its own: its name and arguments
    ret                   \* << >>, or the one value that function has returned

vars == << cores, signals, cond_names, args_pseudo, motif_list, peak_chunks, pc,
           motif_names_predict, qs_list, qs, files, writer, tmpfile, task,
           emitted, results, finished, markers, listener, background, bg_signal,
           idx,
           thresholds, pseudos, pseudo, best_gmm, log2fc_params, agg, rows,
           info_table, written, abort, abort_names, call, ret >>

----------------------------------------------------------------------------
(* Bounds of the model *)
MaxCores == 3
MaxConds == 2
MaxMotifs == 2
MaxChunks == 2
MaxPeaks == 5
MaxSplit == 4
MaxScale == 2
MaxNames == 3
MaxWriters == 3
MaxBic == 3

(* Program constants *)
writer_cores == 1
threshold_components == 2
null_components == 9
maxsize == 0
None == 0
Marker == << None, None >>

TFNames == 1 .. MaxMotifs

\* the names of the motifs of the motif file; the first one is called 1
MotifInputs ==
    { m \in UNION { [1 .. n -> TFNames] : n \in 1 .. MaxMotifs } : m[1] = 1 }

\* the background signal at a sampled position: zero or not
SignalVals == {0, 1}

worker_cores == IF cores - 1 > 1 THEN cores - 1 ELSE 1

----------------------------------------------------------------------------
(* Helpers *)
Range(s) == { s[i] : i \in 1 .. Len(s) }

Perms(S) == { s \in [1 .. Cardinality(S) -> S] : Range(s) = S }

\* lst[i::step] of Python, with i counted from 0
Slice(lst, i, step) ==
    LET taken == { k \in 1 .. Len(lst) : (k - 1) >= i /\ ((k - 1) - i) % step = 0 }
        n == Cardinality(taken)
    IN  [ j \in 1 .. n |-> lst[i + (j - 1) * step + 1] ]

\* motif_list.extend([motif.get_reverse() for motif in motif_list]); names only
WithReverse(names) == names \o names

motif_list_missing(motifs) == SelectSeq(motifs, LAMBDA name : name # 1)

\* line 304: args.no_overwrite is False (line 156), so the motifs to predict
\* are all the motifs of motif_list
motif_list_predict(motifs) == motifs

list_of_names(names) == { names }

\* list(set([motif.name for motif in motif_list])) of line 305: every name
\* once, in the iteration order of the set, which the language leaves open
list_of_set(names) == Perms(Range(names))

names_chunks_from_one(names, W) == [ w \in 1 .. W |-> Slice(names, w, W) ]

\* line 341 for a number W of writer units:
\* [motif_names_predict[i::writer_cores] for i in range(writer_cores)]
names_chunks(names, W) == [ w \in 1 .. W |-> Slice(names, w - 1, W) ]

TF_names_chunks_shifted(names) ==
    [ w \in 1 .. writer_cores |-> Slice(names, w, writer_cores) ]

\* TF_names_chunks of line 341, writer_cores being 1 (line 149)
TF_names_chunks(names) == names_chunks(names, writer_cores)

\* the inputs of a run, and the call of a function on its own, which a run
\* leaves alone
inputs == << cores, signals, cond_names, motif_list, peak_chunks, call, ret >>
routing == << motif_names_predict, qs, files >>
scanning == << task, emitted, results, finished >>
fitting == << background, bg_signal, idx, thresholds, pseudos, pseudo, best_gmm,
              log2fc_params >>
aggregation == << agg, rows, info_table, written >>
failure == << abort, abort_names >>

Chunks == 1 .. peak_chunks
Writers == DOMAIN files

\* the background fragment of chunk c: the position it sampled
Fragment(c) == << c >>

\* the id of the k-th record a scan of chunk c emits
RecId(c, k) == (c - 1) * Len(motif_list) + k

----------------------------------------------------------------------------
Init ==
    /\ cores \in 1 .. MaxCores
    /\ signals \in 1 .. MaxConds
    /\ cond_names \in { [ i \in 1 .. n |-> i ] : n \in 1 .. MaxConds }
    /\ args_pseudo \in { None, 3 }
    /\ motif_list \in { WithReverse(m) : m \in MotifInputs }
    /\ peak_chunks \in 1 .. MaxChunks
    /\ pc = "setup"
    /\ motif_names_predict = << >>
    /\ qs_list = << >>
    /\ qs = << >>
    /\ files = << >>
    /\ writer = << >>
    /\ tmpfile = [ tf \in {} |-> << >> ]
    /\ task = [ c \in 1 .. peak_chunks |-> "pending" ]
    /\ emitted = [ c \in 1 .. peak_chunks |-> 0 ]
    /\ results = [ c \in 1 .. peak_chunks |-> << >> ]
    /\ finished = << >>
    /\ markers = << >>
    /\ listener = "running"
    /\ background = << >>
    /\ bg_signal = << >>
    /\ idx = 0
    /\ thresholds = << >>
    /\ pseudos = << >>
    /\ pseudo = None
    /\ best_gmm = << >>
    /\ log2fc_params = << >>
    /\ agg = << >>
    /\ rows = << >>
    /\ info_table = << >>
    /\ written = {}
    /\ abort = "none"
    /\ abort_names = {}
    /\ call = [ op |-> "run_bindetect" ]
    /\ ret = << >>

----------------------------------------------------------------------------
(* Lines 302-352: the predicted names, the writer queues, the writer units *)
SetupWriters ==
    /\ pc = "setup"
    /\ \E names \in list_of_set(motif_list_predict(motif_list)) :
         LET chunks == TF_names_chunks(names)
         IN  /\ motif_names_predict' = names
             /\ qs_list' = [ w \in DOMAIN chunks |-> << >> ]
             /\ files' = [ w \in DOMAIN chunks |-> Range(chunks[w]) ]
             /\ writer' = [ w \in DOMAIN chunks |-> "running" ]
             /\ markers' = [ w \in DOMAIN chunks |-> 0 ]
             /\ qs' = [ tf \in UNION { Range(chunks[w]) : w \in DOMAIN chunks } |->
                          CHOOSE w \in DOMAIN chunks :
                             /\ tf \in Range(chunks[w])
                             /\ \A v \in DOMAIN chunks :
                                  tf \in Range(chunks[v]) => v <= w ]
             /\ tmpfile' = [ tf \in Range(names) |-> << >> ]
    /\ pc' = "scan"
    /\ UNCHANGED << inputs, args_pseudo, listener, scanning, failure, fitting,
                    aggregation >>

----------------------------------------------------------------------------
(* Lines 354-368: the scan phase.  scan_and_score emits one match record   *)
(* per motif variant of motif_list into the queue of the variant's TF and  *)
(* returns the background fragment of its chunk.                           *)

\* a condition beyond the last signal file has no signal source to sample
MissingSignal == Len(cond_names) > signals

\* the tasks of the pool run from their submission until the run ends
PoolAlive == pc \notin {"setup", "aborted"}

Running == { c \in Chunks : task[c] = "running" }

\* line 359 runs the chunks one after the other in the controller;
\* line 364 hands them to the pool of worker_cores processes
MayStart(c) ==
    IF worker_cores = 1
    THEN \A d \in 1 .. (c - 1) : task[d] = "returned"
    ELSE Cardinality(Running) < worker_cores

\* an exception of line 359 leaves run_bindetect at once; one inside a pool
\* task is kept in its AsyncResult until task.get() of line 366
RaiseInScan ==
    IF worker_cores = 1
    THEN pc' = "aborted" /\ abort' = "fault"
    ELSE UNCHANGED << pc, abort >>

ScanStart(c) ==
    /\ pc = "scan"
    /\ task[c] = "pending"
    /\ MayStart(c)
    /\ IF MissingSignal
       THEN task' = [task EXCEPT ![c] = "faulted"] /\ RaiseInScan
       ELSE task' = [task EXCEPT ![c] = "running"] /\ UNCHANGED << pc, abort >>
    /\ UNCHANGED << inputs, args_pseudo, routing, qs_list, writer, tmpfile,
                    emitted, results, finished, markers, listener, abort_names,
                    fitting,
                    aggregation >>

\* Queue.full(): manager.Queue() of line 346 is made without a maxsize, which
\* is maxsize 0, a queue without a limit
full(q) == 0 < maxsize /\ maxsize <= Len(q)

q_put_first(q, item) == << item >> \o q

\* put on a queue made by manager.Queue() (line 346): first in, first out
q_put(q, item) == Append(q, item)

\* qs[TF].put(...) of the next match; a name without a queue is a KeyError
ScanPut(c) ==
    /\ PoolAlive
    /\ task[c] = "running"
    /\ emitted[c] < Len(motif_list)
    /\ LET k == emitted[c] + 1
           TF == motif_list[k]
       IN  IF TF \in DOMAIN qs
           THEN /\ ~full(qs_list[qs[TF]])
                /\ qs_list' = [qs_list EXCEPT ![qs[TF]] =
                                   q_put(@, << TF, RecId(c, k) >>)]
                /\ emitted' = [emitted EXCEPT ![c] = k]
                /\ UNCHANGED << pc, task, abort >>
           ELSE /\ task' = [task EXCEPT ![c] = "faulted"]
                /\ RaiseInScan
                /\ UNCHANGED << qs_list, emitted >>
    /\ UNCHANGED << inputs, args_pseudo, routing, writer, tmpfile, results, finished,
                    markers, listener, abort_names, fitting, aggregation >>

ScanReturn(c) ==
    /\ PoolAlive
    /\ task[c] = "running"
    /\ emitted[c] = Len(motif_list)
    /\ results' = [results EXCEPT ![c] = Fragment(c)]
    /\ finished' = Append(finished, c)
    /\ task' = [task EXCEPT ![c] = "returned"]
    /\ UNCHANGED << inputs, args_pseudo, routing, pc, qs_list, writer, tmpfile,
                    emitted, markers, listener, failure, fitting, aggregation >>

ScanFault(c) ==
    /\ PoolAlive
    /\ task[c] = "running"
    /\ task' = [task EXCEPT ![c] = "faulted"]
    /\ RaiseInScan
    /\ UNCHANGED << inputs, args_pseudo, routing, qs_list, writer, tmpfile,
                    emitted, results, finished, markers, listener, abort_names,
                    fitting,
                    aggregation >>

AllScansReady_started == \A c \in Chunks : task[c] # "pending"

\* monitor_progress and the task.get() calls return once every task is ready
AllScansReady == \A c \in Chunks : task[c] \in {"returned", "faulted"}

ScanFaulted == \E c \in Chunks : task[c] = "faulted"

ScanJoin_ignoring == "log_stop"

\* results = [task.get() for task in task_list] re-raises a task's exception
ScanJoinTarget == IF ScanFaulted THEN "aborted" ELSE "log_stop"

ScanJoin ==
    /\ pc = "scan"
    /\ AllScansReady
    /\ pc' = ScanJoinTarget
    /\ abort' = IF pc' = "aborted" THEN "fault" ELSE abort
    /\ UNCHANGED << inputs, args_pseudo, routing, qs_list, writer, tmpfile,
                    markers, listener, scanning, abort_names, fitting,
                    aggregation >>

----------------------------------------------------------------------------
(* The writer units: file_writer(q, files, args) in the writer pool *)

WriterGet(w) ==
    /\ pc # "aborted"
    /\ writer[w] = "running"
    /\ qs_list[w] # << >>
    /\ LET item == Head(qs_list[w])
       IN  /\ qs_list' = [qs_list EXCEPT ![w] = Tail(@)]
           /\ IF item = Marker
              THEN /\ writer' = [writer EXCEPT ![w] = "done"]
                   /\ UNCHANGED tmpfile
              ELSE /\ tmpfile' = [tmpfile EXCEPT ![item[1]] = Append(@, item[2])]
                   /\ UNCHANGED writer
    /\ UNCHANGED << inputs, args_pseudo, routing, pc, markers, listener,
                    scanning, failure, fitting, aggregation >>

\* an exception inside file_writer ends the pool task; its AsyncResult was
\* dropped at line 349, so nothing re-raises it in the controller
WriterFault(w) ==
    /\ pc \notin {"setup", "aborted"}
    /\ writer[w] = "running"
    /\ writer' = [writer EXCEPT ![w] = "faulted"]
    /\ UNCHANGED << inputs, args_pseudo, routing, pc, qs_list, tmpfile,
                    markers, listener, scanning, failure, fitting,
                    aggregation >>

----------------------------------------------------------------------------
(* Lines 370-393: listener stop, shutdown markers, writer join *)

LogStop ==
    /\ pc = "log_stop"
    /\ pc' = "listener_wait"
    /\ UNCHANGED << inputs, args_pseudo, routing, qs_list, writer, tmpfile,
                    markers, listener, scanning, failure, fitting,
                    aggregation >>

\* the listener ends after it has read the None of line 372
ListenerExit ==
    /\ pc = "listener_wait"
    /\ listener = "running"
    /\ listener' \in {"exit_clean", "exit_abnormal"}
    /\ UNCHANGED << inputs, args_pseudo, routing, pc, qs_list, writer, tmpfile,
                    markers, scanning, failure, fitting, aggregation >>

\* while listener.exitcode != 0: time.sleep(1)
ListenerPoll ==
    /\ pc = "listener_wait"
    /\ listener # "exit_clean"
    /\ UNCHANGED vars

ListenerJoin ==
    /\ pc = "listener_wait"
    /\ listener = "exit_clean"
    /\ pc' = "markers"
    /\ UNCHANGED << inputs, args_pseudo, routing, qs_list, writer, tmpfile,
                    markers, listener, scanning, failure, fitting,
                    aggregation >>

\* for q in qs_list: q.put((None, None))
PutMarkers ==
    /\ pc = "markers"
    /\ \A w \in DOMAIN qs_list : ~full(qs_list[w])
    /\ qs_list' = [ w \in DOMAIN qs_list |-> q_put(qs_list[w], Marker) ]
    /\ markers' = [ w \in DOMAIN markers |-> markers[w] + 1 ]
    /\ pc' = "writer_join"
    /\ UNCHANGED << inputs, args_pseudo, routing, writer, tmpfile, listener,
                    scanning, failure, fitting, aggregation >>

\* writer_pool.join() returns when every writer process has ended
WritersEnded == \A w \in Writers : writer[w] # "running"

WriterJoin ==
    /\ pc = "writer_join"
    /\ WritersEnded
    /\ pc' = "merge"
    /\ UNCHANGED << inputs, args_pseudo, routing, qs_list, writer, tmpfile,
                    markers, listener, scanning, failure, fitting,
                    aggregation >>

----------------------------------------------------------------------------
(* Lines 400-409: merging the fragments of the chunks, in the order of results *)

RECURSIVE Concat(_)
Concat(seqs) == IF seqs = << >> THEN << >> ELSE Head(seqs) \o Concat(Tail(seqs))

scan_results_as_finished == [ i \in DOMAIN finished |-> results[finished[i]] ]

\* results.append(...) in the loop of line 358, or
\* results = [task.get() for task in task_list] of line 366: one entry per
\* chunk, in the order of peak_chunks
scan_results == [ c \in Chunks |-> results[c] ]

\* lines 408-409 turn the merged values of every condition into an array:
\* the values at the sampled positions are input data, read here
Merge ==
    /\ pc = "merge"
    /\ background' = Concat(scan_results)
    /\ bg_signal' \in [Range(cond_names) -> [Range(Concat(results)) -> SignalVals]]
    /\ results' = [ c \in Chunks |-> << >> ]
    /\ idx' = 1
    /\ pc' = "threshold"
    /\ UNCHANGED << inputs, args_pseudo, routing, qs_list, writer, tmpfile, task,
                    emitted, finished, markers, listener, thresholds, pseudos, pseudo,
                    best_gmm, log2fc_params, aggregation, failure >>

----------------------------------------------------------------------------
(* Lines 412-502: score distribution, threshold and pseudocount per condition *)

\* the fitted log-normal of a condition, named by its mode
FitChoices == {2, 4}
Mode(log_params) == log_params

\* bg_values[np.logical_not(np.isclose(bg_values, 0.0))]
NonZero_unfiltered(positions, vals) == positions

NonZero(positions, vals) == SelectSeq(positions, LAMBDA p : vals[p] # 0)

Put(f, k, v) == [ x \in DOMAIN f \cup {k} |-> IF x = k THEN v ELSE f[x] ]

\* One pass of the loop of line 419.  np.percentile and GaussianMixture.fit
\* raise on an empty sample; nothing in the loop catches that.
Threshold ==
    /\ pc = "threshold"
    /\ idx <= Len(cond_names)
    /\ LET bigwig == cond_names[idx]
           bg_values == NonZero(background, bg_signal[bigwig])
       IN  IF bg_values = << >>
           THEN /\ pc' = "aborted"
                /\ abort' = "fault"
                /\ abort_names' = {}
                /\ UNCHANGED << idx, thresholds, pseudos, pseudo, best_gmm >>
           ELSE \E log_params \in FitChoices :
                /\ best_gmm' = << "condition", bigwig >>
                /\ thresholds' = Put(thresholds, bigwig, log_params)
                /\ pseudo' = Mode(log_params) \div 2
                /\ pseudos' = Append(pseudos, Mode(log_params) \div 2)
                /\ idx' = idx + 1
                /\ UNCHANGED << pc, failure >>
    /\ UNCHANGED << inputs, args_pseudo, routing, qs_list, writer, tmpfile,
                    markers, listener, scanning, background, bg_signal,
                    log2fc_params, aggregation >>

\* np.mean of the scalar pseudo is pseudo
EstimatedPseudo == pseudo

\* lines 499-502
Pseudocount ==
    /\ pc = "threshold"
    /\ idx > Len(cond_names)
    /\ args_pseudo' = IF args_pseudo = None THEN EstimatedPseudo ELSE args_pseudo
    /\ idx' = 1
    /\ pc' = "foldchange"
    /\ UNCHANGED << inputs, routing, qs_list, writer, tmpfile, markers, listener,
                    scanning, background, bg_signal, thresholds, pseudos, pseudo,
                    best_gmm, log2fc_params, aggregation, failure >>

----------------------------------------------------------------------------
(* Lines 506-592: the null model of every comparison *)

\* list(itertools.combinations(args.cond_names, 2))
RECURSIVE Combinations(_)
Combinations(names) ==
    IF Len(names) < 2 THEN << >>
    ELSE [ j \in 1 .. (Len(names) - 1) |-> << names[1], names[j + 1] >> ]
         \o Combinations(Tail(names))

comparisons == Combinations(cond_names)

\* positions where not both scores are (close to) zero
Included(b1, b2) ==
    SelectSeq(background, LAMBDA p : ~(bg_signal[b1][p] = 0 /\ bg_signal[b2][p] = 0))

FoldChangeLoop_short == signals > 1 /\ idx < Len(comparisons)

\* if len(args.signals) > 1: for (bigwig1, bigwig2) in comparisons
FoldChangeLoop == signals > 1 /\ idx <= Len(comparisons)

NullModel ==
    /\ pc = "foldchange"
    /\ FoldChangeLoop
    /\ LET pair == comparisons[idx]
       IN  IF Included(pair[1], pair[2]) = << >>
           THEN /\ pc' = "aborted"
                /\ abort' = "error"
                /\ abort_names' = { pair[1], pair[2] }
                /\ UNCHANGED << idx, best_gmm, log2fc_params >>
           ELSE /\ best_gmm' = << "pair", pair >>
                /\ log2fc_params' = Put(log2fc_params, pair, << "pair", pair >>)
                /\ idx' = idx + 1
                /\ UNCHANGED << pc, failure >>
    /\ UNCHANGED << inputs, args_pseudo, routing, qs_list, writer, tmpfile,
                    markers, listener, scanning, background, bg_signal,
                    thresholds, pseudos, pseudo, aggregation >>

\* line 592 and the table set up at lines 602-609; the scan tasks are let go
\* of here, task_list being bound anew at line 618
NullModelsDone ==
    /\ pc = "foldchange"
    /\ ~FoldChangeLoop
    /\ background' = << >>
    /\ bg_signal' = << >>
    /\ finished' = << >>
    /\ agg' = [ i \in DOMAIN motif_names_predict |-> "pending" ]
    /\ rows' = [ i \in DOMAIN motif_names_predict |-> << >> ]
    /\ pc' = "aggregate"
    /\ UNCHANGED << inputs, args_pseudo, routing, qs_list, writer, tmpfile,
                    markers, listener, task, emitted, results, idx, thresholds,
                    pseudos, pseudo, best_gmm, log2fc_params, info_table, written,
                    failure >>

----------------------------------------------------------------------------
(* Lines 611-627: one process_tfbs call per predicted name *)

AggRunning == { i \in DOMAIN agg : agg[i] = "running" }

\* line 616 runs the names one after the other in the controller;
\* line 618 hands them to the pool
AggMayStart(i) ==
    IF cores = 1
    THEN \A j \in 1 .. (i - 1) : agg[j] = "done"
    ELSE Cardinality(AggRunning) < worker_cores

RaiseInAgg ==
    IF cores = 1
    THEN pc' = "aborted" /\ abort' = "fault"
    ELSE UNCHANGED << pc, abort >>

\* process_tfbs looks up the null model of every comparison
MissingModel == \E k \in DOMAIN comparisons : comparisons[k] \notin DOMAIN log2fc_params

AggStart(i) ==
    /\ pc = "aggregate"
    /\ agg[i] = "pending"
    /\ AggMayStart(i)
    /\ IF MissingModel
       THEN agg' = [agg EXCEPT ![i] = "faulted"] /\ RaiseInAgg
       ELSE agg' = [agg EXCEPT ![i] = "running"] /\ UNCHANGED << pc, abort >>
    /\ UNCHANGED << inputs, args_pseudo, routing, qs_list, writer, tmpfile,
                    markers, listener, scanning, fitting, rows, info_table,
                    written, abort_names >>

\* the row of a TF: its name and the number of sites read from its file
AggFinish(i) ==
    /\ pc = "aggregate"
    /\ agg[i] = "running"
    /\ agg' = [agg EXCEPT ![i] = "done"]
    /\ LET name == motif_names_predict[i]
       IN  rows' = [rows EXCEPT ![i] = << << name, Len(tmpfile[name]) >> >>]
    /\ UNCHANGED << inputs, args_pseudo, routing, pc, qs_list, writer, tmpfile,
                    markers, listener, scanning, fitting, info_table, written,
                    failure >>

AggFault(i) ==
    /\ pc = "aggregate"
    /\ agg[i] = "running"
    /\ agg' = [agg EXCEPT ![i] = "faulted"]
    /\ RaiseInAgg
    /\ UNCHANGED << inputs, args_pseudo, routing, qs_list, writer, tmpfile,
                    markers, listener, scanning, fitting, rows, info_table,
                    written, abort_names >>

AllAggReady == \A i \in DOMAIN agg : agg[i] \in {"done", "faulted"}

AggFaulted == \E i \in DOMAIN agg : agg[i] = "faulted"

AggJoin_ignoring == "write_table"

\* results = [task.get() for task in task_list] re-raises a task's exception
AggJoinTarget == IF AggFaulted THEN "aborted" ELSE "write_table"

\* lines 619-627: info_table = pd.concat(results)
AggJoin ==
    /\ pc = "aggregate"
    /\ AllAggReady
    /\ pc' = AggJoinTarget
    /\ abort' = IF pc' = "aborted" THEN "fault" ELSE abort
    /\ info_table' = IF pc' = "aborted" THEN info_table ELSE Concat(rows)
    /\ UNCHANGED << inputs, args_pseudo, routing, qs_list, writer, tmpfile,
                    markers, listener, scanning, fitting, agg, rows, written,
                    abort_names >>

\* lines 602-604: the columns of the result table, itertools.product in
\* the order of the conditions and of the comparisons
info_columns ==
    << << "total_tfbs" >> >>
    \o [ k \in 1 .. 2 * Len(cond_names) |->
           << cond_names[(k + 1) \div 2], << "threshold", "bound" >>[((k - 1) % 2) + 1] >> ]
    \o [ k \in 1 .. 2 * Len(comparisons) |->
           << comparisons[(k + 1) \div 2][1], comparisons[(k + 1) \div 2][2],
              << "change", "pvalue" >>[((k - 1) % 2) + 1] >> ]

\* lines 634-662
WriteTable ==
    /\ pc = "write_table"
    /\ written' = written \cup {"bindetect_results"}
    /\ pc' = "plot"
    /\ UNCHANGED << inputs, args_pseudo, routing, qs_list, writer, tmpfile,
                    markers, listener, scanning, fitting, agg, rows, info_table,
                    failure >>

no_conditions == signals

\* lines 669-675
DistanceMatrix ==
    /\ pc = "plot"
    /\ no_conditions > 1
    /\ written' = written \cup {"TF_distance_matrix"}
    /\ pc' = "done"
    /\ UNCHANGED << inputs, args_pseudo, routing, qs_list, writer, tmpfile,
                    markers, listener, scanning, fitting, agg, rows, info_table,
                    failure >>

SkipPlot ==
    /\ pc = "plot"
    /\ ~(no_conditions > 1)
    /\ pc' = "done"
    /\ UNCHANGED << inputs, args_pseudo, routing, qs_list, writer, tmpfile,
                    markers, listener, scanning, fitting, aggregation, failure >>

----------------------------------------------------------------------------
Next ==
    \/ SetupWriters
    \/ \E c \in Chunks : ScanStart(c)
    \/ \E c \in Chunks : ScanPut(c)
    \/ \E c \in Chunks : ScanReturn(c)
    \/ \E c \in Chunks : ScanFault(c)
    \/ ScanJoin
    \/ \E w \in Writers : WriterGet(w)
    \/ \E w \in Writers : WriterFault(w)
    \/ LogStop
    \/ ListenerExit
    \/ ListenerPoll
    \/ ListenerJoin
    \/ PutMarkers
    \/ WriterJoin
    \/ Merge
    \/ Threshold
    \/ Pseudocount
    \/ NullModel
    \/ NullModelsDone
    \/ \E i \in DOMAIN agg : AggStart(i)
    \/ \E i \in DOMAIN agg : AggFinish(i)
    \/ \E i \in DOMAIN agg : AggFault(i)
    \/ AggJoin
    \/ WriteTable
    \/ DistanceMatrix
    \/ SkipPlot

Spec == Init /\ [][Next]_vars

----------------------------------------------------------------------------
(* Functions of the run, applied on their own to inputs of their own *)

\* no run is under way: the variables of run_bindetect at rest
NoRun ==
    /\ cores = 1
    /\ signals = 1
    /\ cond_names = << 1 >>
    /\ args_pseudo = None
    /\ motif_list = << >>
    /\ peak_chunks = 0
    /\ pc = "none"
    /\ motif_names_predict = << >>
    /\ qs_list = << >>
    /\ qs = << >>
    /\ files = << >>
    /\ writer = << >>
    /\ tmpfile = << >>
    /\ task = << >>
    /\ emitted = << >>
    /\ results = << >>
    /\ finished = << >>
    /\ markers = << >>
    /\ listener = "none"
    /\ background = << >>
    /\ bg_signal = << >>
    /\ idx = 0
    /\ thresholds = << >>
    /\ pseudos = << >>
    /\ pseudo = None
    /\ best_gmm = << >>
    /\ log2fc_params = << >>
    /\ agg = << >>
    /\ rows = << >>
    /\ info_table = << >>
    /\ written = {}
    /\ abort = "none"
    /\ abort_names = {}

run == << cores, signals, cond_names, args_pseudo, motif_list, peak_chunks, pc,
          motif_names_predict, qs_list, qs, files, writer, tmpfile, task,
          emitted, results, finished, markers, listener, background, bg_signal,
          idx, thresholds, pseudos, pseudo, best_gmm, log2fc_params, agg, rows,
          info_table, written, abort, abort_names >>

Min(a, b) == IF a <= b THEN a ELSE b

\* regions in runs of ceil(len / n), the last chunks taking what is left
chunks_of_ceil(peaks, n) ==
    LET per_chunk == (Len(peaks) + n - 1) \div n
    IN  [ i \in 1 .. n |->
            SubSeq(peaks, (i - 1) * per_chunk + 1, Min(i * per_chunk, Len(peaks))) ]

\* RegionList.chunks(n): n chunks in the order of the list, the first
\* len % n of them one region longer than the others
peaks_chunks(peaks, n) ==
    LET short == Len(peaks) \div n
        long == Len(peaks) % n
        start(i) == (i - 1) * short + Min(i - 1, long)
    IN  [ i \in 1 .. n |->
            SubSeq(peaks, start(i) + 1, start(i + 1)) ]

ChunksCalls ==
    { [ op |-> "chunks", peaks |-> [ i \in 1 .. n |-> i ], split |-> k ] :
         n \in 1 .. MaxPeaks, k \in 1 .. MaxSplit }

\* line 214: peak_chunks = peaks.chunks(args.split)
PeaksChunks ==
    /\ call.op = "chunks"
    /\ ret = << >>
    /\ ret' = << [ peak_chunks |-> peaks_chunks(call.peaks, call.split),
                   results |-> << >> ] >>
    /\ UNCHANGED << run, call >>

\* one pass of the loop of line 358: the scan of the next chunk returns the
\* regions it went through, none for an empty chunk
ScanChunk ==
    /\ call.op = "chunks"
    /\ ret # << >>
    /\ Len(ret[1].results) < Len(ret[1].peak_chunks)
    /\ ret' = [ret EXCEPT ![1].results =
                  Append(@, ret[1].peak_chunks[Len(ret[1].results) + 1])]
    /\ UNCHANGED << run, call >>

\* scipy.stats.lognorm.ppf of shape 1, location 0 and scale 1 at the levels
\* 0, 1/4, 1/2, 3/4 and 1, in millionths; the quantile at level 1 is
\* infinite and stands here as a value above all others
lognorm_ppf == << 0, 509416, 1000000, 1963031, 100000000 >>

\* the levels a probability is drawn from: k stands for k / Levels
Levels == Len(lognorm_ppf) - 1

\* lognorm.ppf(q, shape, loc, scale) = loc + scale * ppf of the unit one
ppf(q, log_params) == log_params.loc + log_params.scale * lognorm_ppf[q + 1]

\* round(x, 5) of a value in millionths
round5(x) == ((x + 5) \div 10) * 10

threshold_at_bound(bound_threshold, log_params) ==
    round5(ppf(bound_threshold, log_params))

\* line 462: round(scipy.stats.lognorm.ppf(1 - args.bound_threshold, *log_params), 5)
threshold(bound_threshold, log_params) ==
    round5(ppf(Levels - bound_threshold, log_params))

\* log_params of line 445 is fitted to bg_values alone; the same fit is
\* used with one bound_threshold and with another
ThresholdCalls ==
    { [ op |-> "threshold", log_params |-> [ loc |-> l, scale |-> c ],
        bound_threshold |-> << b1, b2 >> ] :
         l \in {0, 3, 14}, c \in 1 .. MaxScale, b1 \in 0 .. Levels, b2 \in 0 .. Levels }

Threshold2 ==
    /\ call.op = "threshold"
    /\ ret = << >>
    /\ ret' = << << threshold(call.bound_threshold[1], call.log_params),
                    threshold(call.bound_threshold[2], call.log_params) >> >>
    /\ UNCHANGED << run, call >>

NamesCalls ==
    { [ op |-> "names_chunks", names |-> names, writer_cores |-> W ] :
         names \in UNION { Perms(1 .. n) : n \in 0 .. MaxNames }, W \in 1 .. MaxWriters }

\* lines 341-349: the names of every writer unit and the dict of its files,
\* dict(zip(TF_names_sub, files)), one file path per name
WriterFiles ==
    /\ call.op = "names_chunks"
    /\ ret = << >>
    /\ LET TF_names_sub == names_chunks(call.names, call.writer_cores)
       IN  ret' = << [ TF_names_chunks |-> TF_names_sub,
                       files |-> [ w \in DOMAIN TF_names_sub |->
                                     [ TF \in Range(TF_names_sub[w]) |-> << TF, "tmp" >> ] ] ] >>
    /\ UNCHANGED << run, call >>

\* np.inf, above every BIC a fit can have
inf == MaxBic + 1

better_or_equal(bic, lowest_bic) == bic <= lowest_bic

\* lines 436 and 538: if bic < lowest_bic
better(bic, lowest_bic) == bic < lowest_bic

lowest_bic_kept(carried) == carried.lowest_bic

\* lines 429 and 530: lowest_bic = np.inf ahead of every loop over the
\* component counts; best_gmm is not bound anew
lowest_bic_start(carried) == inf

\* what the locals best_gmm and lowest_bic hold when a loop over the
\* component counts begins: nothing on the first condition, afterwards the
\* model and the BIC the loop before left behind
Carried ==
    { [ best_gmm |-> << "unbound" >>, lowest_bic |-> inf ] }
    \cup { [ best_gmm |-> << "carried" >>, lowest_bic |-> b ] : b \in {1, MaxBic} }

\* range(1, 3) of line 430 and range(1, 10) of line 531
SelectCalls ==
    { [ op |-> "select", n_components_range |-> r, carried |-> c ] :
         r \in {threshold_components, null_components}, c \in Carried }

SelectStart ==
    /\ call.op = "select"
    /\ ret = << >>
    /\ ret' = << [ lowest_bic |-> lowest_bic_start(call.carried),
                   best_gmm |-> call.carried.best_gmm,
                   bics |-> << >>,
                   published |-> << >> ] >>
    /\ UNCHANGED << run, call >>

\* one pass of the loop of line 430 or 532: the mixture of the next
\* component count is fitted, its BIC is a value of the data
FitComponents ==
    /\ call.op = "select"
    /\ ret # << >>
    /\ Len(ret[1].bics) < call.n_components_range
    /\ \E bic \in 1 .. MaxBic :
         LET n_components == Len(ret[1].bics) + 1
         IN  ret' = << [ lowest_bic |-> IF better(bic, ret[1].lowest_bic)
                                        THEN bic ELSE ret[1].lowest_bic,
                        best_gmm |-> IF better(bic, ret[1].lowest_bic)
                                      THEN << "fitted", n_components >>
                                      ELSE ret[1].best_gmm,
                        bics |-> Append(ret[1].bics, bic),
                        published |-> << >> ] >>
    /\ UNCHANGED << run, call >>

\* line 439, gmm = best_gmm, and line 542, log2fc_params[...] = best_gmm
PublishBest ==
    /\ call.op = "select"
    /\ ret # << >>
    /\ Len(ret[1].bics) = call.n_components_range
    /\ ret[1].published = << >>
    /\ ret' = << [ ret[1] EXCEPT !.published = << ret[1].best_gmm >> ] >>
    /\ UNCHANGED << run, call >>

InitFunctions ==
    /\ NoRun
    /\ call \in ChunksCalls \cup ThresholdCalls \cup NamesCalls \cup SelectCalls
    /\ ret = << >>

NextFunctions ==
    \/ PeaksChunks
    \/ ScanChunk
    \/ Threshold2
    \/ WriterFiles
    \/ SelectStart
    \/ FitComponents
    \/ PublishBest

SpecFunctions == InitFunctions /\ [][NextFunctions]_vars


----------------------------------------------------------------------------
(* Properties *)

AfterWriterJoin ==
    {"merge", "threshold", "foldchange", "aggregate", "write_table", "plot", "done"}

PredictedNames == Range(motif_list)

Owners(tf) == { w \in Writers : tf \in files[w] }

RoutingOK ==
    \A tf \in PredictedNames :
       /\ tf \in DOMAIN qs
       /\ qs[tf] \in DOMAIN qs_list
       /\ Owners(tf) = { qs[tf] }

\* C1: once the routing table is built every predicted TF name is routed to
\* exactly one writer queue, exactly one writer unit holds the file of that
\* TF (the unit of that queue), and the routing never changes afterwards.
C1_SingleWriterPerTF ==
    /\ [](pc # "setup" => RoutingOK)
    /\ [][pc # "setup" => (qs' = qs /\ files' = files)]_vars

C1_Witness ==
    /\ Cardinality(DOMAIN qs) = 2
    /\ \E w \in DOMAIN qs_list : Len(qs_list[w]) >= 2

C3_WritersFlushedBeforeMerge ==
    pc \in AfterWriterJoin =>
       \A w \in Writers : writer[w] = "done" /\ qs_list[w] = << >>

Emitted(tf) ==
    { RecId(c, k) : c \in Chunks, k \in { j \in 1 .. Len(motif_list) :
                                            motif_list[j] = tf } }

\* C4: when the writers have terminated, the output stream of every TF holds
\* each match record emitted for that TF exactly once.
C4_ExactlyOnce ==
    pc \in AfterWriterJoin =>
       \A tf \in PredictedNames :
          /\ Range(tmpfile[tf]) = Emitted(tf)
          /\ Len(tmpfile[tf]) = Cardinality(Emitted(tf))

\* C5: after a fault in a scan_and_score call the controller is nowhere past
\* the scan phase, after a fault in a process_tfbs call it is nowhere past the
\* aggregation phase, and in both cases no output has been written.
C5_TaskFaultFatal ==
    /\ ScanFaulted => (pc \in {"scan", "aborted"} /\ written = {})
    /\ (agg # << >> /\ AggFaulted) => (pc \in {"aggregate", "aborted"} /\ written = {})

C5_Witness ==
    /\ pc = "aborted"
    /\ worker_cores > 1
    /\ \E c \in Chunks : task[c] = "faulted" /\ emitted[c] > 0
    /\ \E c \in Chunks : task[c] = "returned"

WriterFaulted == \E w \in Writers : writer[w] = "faulted"

\* C6: after a writer unit has ended by a fault the controller is in none of
\* the later phases and no output has been written.
C6_WriterFaultFatal ==
    WriterFaulted => (pc \notin AfterWriterJoin /\ written = {})

RECURSIVE Sum(_)
Sum(s) == IF s = << >> THEN 0 ELSE Head(s) + Sum(Tail(s))

\* C8: when no pseudocount is configured, the value line 501 stores is the
\* mean of the candidates of all conditions.
C8_PseudoIsMean ==
    [][(pc = "threshold" /\ pc' = "foldchange" /\ args_pseudo = None)
         => args_pseudo' * Len(pseudos) = Sum(pseudos)]_vars

ZeroConditions ==
    { b \in DOMAIN bg_signal : \A p \in DOMAIN bg_signal[b] : bg_signal[b][p] = 0 }

\* C9: when the background sample of a condition is all zero, the loop of
\* line 419 never gets past that condition: the run is aborted there, with no
\* process_tfbs call started and no output written.
C9_ZeroBackgroundAborts ==
    ZeroConditions # {} =>
       /\ pc \in {"threshold", "aborted"}
       /\ pc = "threshold" =>
             \A i \in 1 .. (idx - 1) : cond_names[i] \notin ZeroConditions
       /\ agg = << >>
       /\ written = {}

C9_Witness ==
    /\ pc = "aborted"
    /\ Len(cond_names) = 2
    /\ ZeroConditions = { cond_names[2] }

\* C10: when the run is aborted over a condition whose background sample is
\* all zero, it ends with an error of the program that names such a condition.
C10_ZeroBackgroundNamed ==
    (pc = "aborted" /\ ZeroConditions # {}) =>
       (abort = "error" /\ ZeroConditions \cap abort_names # {})

EmptyPairs ==
    { k \in DOMAIN comparisons :
        /\ { comparisons[k][1], comparisons[k][2] } \subseteq DOMAIN bg_signal
        /\ Included(comparisons[k][1], comparisons[k][2]) = << >> }

\* C11: when no background position of a pair remains after the exclusion of
\* line 520, the run ends with an error that names both conditions of the
\* pair, and no model of that pair is published.
C11_EmptyPairNamed ==
    \A k \in EmptyPairs :
       /\ comparisons[k] \notin DOMAIN log2fc_params
       /\ pc = "aborted" =>
             (abort = "error" /\ abort_names = { comparisons[k][1], comparisons[k][2] })

ChangeColumns ==
    { col \in Range(info_columns) : col[Len(col)] \in {"change", "pvalue"} }

\* C12: with one condition there is no comparison, no model of a pair, no
\* change or pvalue column, and the distance matrix is never written; with two
\* or more conditions a finished run has written the distance matrix, and the
\* matrix is only ever written after the result table.
C12_SingleConditionNoMatrix ==
    /\ Len(cond_names) = 1 =>
          /\ comparisons = << >>
          /\ log2fc_params = << >>
          /\ ChangeColumns = {}
          /\ "TF_distance_matrix" \notin written
    /\ "TF_distance_matrix" \in written => "bindetect_results" \in written
    /\ (Len(cond_names) >= 2 /\ pc = "done") => "TF_distance_matrix" \in written

TableNames == [ i \in DOMAIN info_table |-> info_table[i][1] ]

\* C13: one process_tfbs call is made per TF name and the assembled table has
\* exactly one row per TF name: the reverse motifs and the motifs that share
\* a name add no call and no row, and no name is left out.
C13_OneRowPerName ==
    /\ pc \in {"aggregate", "write_table", "plot", "done"} =>
          /\ Len(agg) = Cardinality(PredictedNames)
          /\ { motif_names_predict[i] : i \in DOMAIN agg } = PredictedNames
    /\ pc \in {"write_table", "plot", "done"} =>
          /\ Len(info_table) = Cardinality(PredictedNames)
          /\ Range(TableNames) = PredictedNames

C13_Witness ==
    /\ pc = "done"
    /\ Len(motif_list) = 4
    /\ Cardinality(PredictedNames) = 1
    /\ Len(info_table) = 1

\* C14: the rows of the assembled table are in the order of the TF names,
\* whatever order the set of line 305 was iterated in and whatever order the
\* process_tfbs calls ended in.
C14_RowsInNameOrder ==
    pc \in {"write_table", "plot", "done"} =>
       \A i, j \in DOMAIN TableNames : i < j => TableNames[i] < TableNames[j]

\* C15: the merged background holds the fragments of the chunks in the
\* order of the chunks, whatever order the scans of the chunks returned in.
C15_MergedInChunkOrder ==
    pc \in {"threshold", "foldchange"} =>
       background = Concat([ c \in Chunks |-> Fragment(c) ])

C15_Witness ==
    /\ pc = "foldchange"
    /\ finished = << 2, 1 >>
    /\ background = << 1, 2 >>

Abs(x) == IF x < 0 THEN 0 - x ELSE x

\* C17: for every number of chunks asked for, peaks.chunks gives that many
\* chunks, of sizes at most 1 apart, whose concatenation in order is the
\* region list; when more chunks are asked for than there are regions the
\* empty chunks come last, and the scan loop goes through all the chunks,
\* the empty ones adding nothing, and ends having scanned the region list.
C17_ChunksEvenAndOrdered ==
    (call.op = "chunks" /\ ret # << >>) =>
       LET made == ret[1].peak_chunks
           n == Len(call.peaks)
       IN  /\ Len(made) = call.split
           /\ \A i, j \in DOMAIN made :
                 Abs(Len(made[i]) - Len(made[j])) <= 1
           /\ Concat(made) = call.peaks
           /\ \A i \in DOMAIN made : (made[i] = << >>) <=> (i > n)
           /\ ret[1].results = SubSeq(made, 1, Len(ret[1].results))
           /\ Len(ret[1].results) = call.split => Concat(ret[1].results) = call.peaks

C17_Witness ==
    /\ call.op = "chunks"
    /\ Len(call.peaks) = 2
    /\ call.split = 4
    /\ ret # << >>
    /\ Len(ret[1].results) = 4
    /\ ret[1].peak_chunks = << << 1 >>, << 2 >>, << >>, << >> >>

IsPrefix(a, b) == Len(a) <= Len(b) /\ SubSeq(b, 1, Len(a)) = a

RECURSIVE RecordsOf(_, _)
RecordsOf(tf, q) ==
    IF q = << >> THEN << >>
    ELSE (IF Head(q)[1] = tf THEN << Head(q)[2] >> ELSE << >>) \o RecordsOf(tf, Tail(q))

\* the records of a TF in the order they arrived at its queue: those already
\* appended to its file, then those still waiting in the queue
Arrived(tf, file, queues) == file[tf] \o RecordsOf(tf, queues[qs[tf]])

\* C18: the file of a TF is at every moment the front part of the records of
\* that TF in the order they arrived at its queue, so records are appended in
\* arrival order; and a record is only ever appended to the file of a TF by
\* the one writer unit that owns the TF, taking it from its own queue.
C18_AppendInArrivalOrder ==
    [][ \A tf \in DOMAIN tmpfile \cap DOMAIN qs :
          /\ IsPrefix(tmpfile[tf], tmpfile'[tf])
          /\ IsPrefix(Arrived(tf, tmpfile, qs_list), Arrived(tf, tmpfile', qs_list'))
          /\ tmpfile'[tf] # tmpfile[tf] =>
                /\ Owners(tf) = { qs[tf] }
                /\ writer[qs[tf]] = "running"
                /\ qs_list'[qs[tf]] = Tail(qs_list[qs[tf]])
                /\ \A v \in Writers \ { qs[tf] } : qs_list'[v] = qs_list[v] ]_vars

C18_Witness ==
    /\ motif_list = << 1, 1 >>
    /\ 1 \in DOMAIN tmpfile
    /\ Len(tmpfile[1]) >= 2
    /\ tmpfile[1][1] = RecId(2, 1)
    /\ tmpfile[1][2] = RecId(1, 1)

\* C19: with the same fitted log-normal, a larger bound_threshold never gives
\* a larger threshold.
C19_ThresholdMonotone ==
    (call.op = "threshold" /\ ret # << >>) =>
       (call.bound_threshold[1] <= call.bound_threshold[2] => ret[1][2] <= ret[1][1])

C19_Witness ==
    /\ call.op = "threshold"
    /\ ret # << >>
    /\ call.bound_threshold[1] < call.bound_threshold[2]
    /\ ret[1][2] < ret[1][1]

\* C20: the name at index i (from 0) goes to writer unit i mod W; the blocks
\* of the units share no name, together hold every name, and are at most 1
\* apart in size; every unit holds exactly one file per name of its block.
C20_RoundRobinBlocks ==
    (call.op = "names_chunks" /\ ret # << >>) =>
       LET blocks == ret[1].TF_names_chunks
           W == call.writer_cores
       IN  /\ Len(blocks) = W
           /\ \A i \in DOMAIN call.names :
                 call.names[i] \in Range(blocks[((i - 1) % W) + 1])
           /\ \A v, w \in 1 .. W : v # w => Range(blocks[v]) \cap Range(blocks[w]) = {}
           /\ UNION { Range(blocks[w]) : w \in 1 .. W } = Range(call.names)
           /\ \A w \in 1 .. W : Cardinality(Range(blocks[w])) = Len(blocks[w])
           /\ \A v, w \in 1 .. W : Abs(Len(blocks[v]) - Len(blocks[w])) <= 1
           /\ \A w \in 1 .. W :
                 /\ DOMAIN ret[1].files[w] = Range(blocks[w])
                 /\ \A a, b \in DOMAIN ret[1].files[w] :
                       ret[1].files[w][a] = ret[1].files[w][b] => a = b

C20_Witness ==
    /\ call.op = "names_chunks"
    /\ ret # << >>
    /\ call.writer_cores = 2
    /\ call.names = << 2, 3, 1 >>
    /\ ret[1].TF_names_chunks = << << 2, 1 >>, << 3 >> >>

\* C21: the mixture a loop over the component counts hands on has the lowest
\* BIC of all the counts tried in that loop, and every smaller count had a
\* strictly higher BIC: among counts that tie on the lowest BIC it is the
\* one with the fewest components.
C21_LowestBicFewestComponents ==
    (call.op = "select" /\ ret # << >> /\ ret[1].published # << >>) =>
       LET chosen == ret[1].published[1]
           bics == ret[1].bics
       IN  /\ chosen[1] = "fitted"
           /\ chosen[2] \in DOMAIN bics
           /\ \A n \in DOMAIN bics : bics[chosen[2]] <= bics[n]
           /\ \A n \in 1 .. (chosen[2] - 1) : bics[n] > bics[chosen[2]]

C21_Witness ==
    /\ call.op = "select"
    /\ call.n_components_range = null_components
    /\ ret # << >>
    /\ ret[1].bics = << 3, 2, 1, 2, 3, 2, 1, 2, 1 >>
    /\ ret[1].published = << << "fitted", 3 >> >>

\* C25: from the first fit of a loop on, best_gmm is a mixture fitted in that
\* loop, and so is the model the loop hands on: never the model that
\* best_gmm held when the loop began.
C25_NeverCarriedOver ==
    (call.op = "select" /\ ret # << >> /\ Len(ret[1].bics) >= 1) =>
       /\ ret[1].best_gmm[1] = "fitted"
       /\ ret[1].best_gmm # call.carried.best_gmm
       /\ ret[1].published \in { << >>, << ret[1].best_gmm >> }

C25_Witness ==
    /\ call.op = "select"
    /\ call.n_components_range = null_components
    /\ call.carried = [ best_gmm |-> << "carried" >>, lowest_bic |-> 1 ]
    /\ ret # << >>
    /\ Len(ret[1].bics) = null_components
    /\ ret[1].published = << << "fitted", 1 >> >>

\* C22: every writer queue has a finite capacity and the records waiting in
\* it are never more than that capacity.
C22_QueuesBounded ==
    \A w \in DOMAIN qs_list :
       qs_list[w] # << >> => (0 < maxsize /\ Len(qs_list[w]) <= maxsize)

\* C23: the controller is never left waiting for a log listener that has
\* ended: once the listener has ended, the wait of line 373 is over.
C23_NoWaitOnEndedListener ==
    (pc = "listener_wait" /\ listener # "running") => ENABLED ListenerJoin

\* C24: once the queues are set up, the TF name of every motif of motif_list
\* has an entry in qs; the record a running scan is about to put has a
\* queue, and every record waiting in a queue is in the queue qs gives for
\* its TF name.
C24_RoutingCoversMotifs ==
    pc # "setup" =>
       /\ Range(motif_list) \subseteq DOMAIN qs
       /\ \A c \in Running :
             emitted[c] < Len(motif_list) => motif_list[emitted[c] + 1] \in DOMAIN qs
       /\ \A w \in DOMAIN qs_list : \A k \in DOMAIN qs_list[w] :
             qs_list[w][k] # Marker =>
                (qs_list[w][k][1] \in DOMAIN qs /\ qs[qs_list[w][k][1]] = w)

C24_Witness ==
    /\ pc = "scan"
    /\ Cardinality(Range(motif_list)) = 2
    /\ \E c \in Chunks : task[c] = "returned" /\ emitted[c] = Len(motif_list)
    /\ \E w \in DOMAIN qs_list : Len(qs_list[w]) >= 2

====
